---- MODULE Spec2Model ----
(***************************************************************************)
(* Model of site_selection.py: ConstraintValidator (add_constraint,        *)
(* get_valid_area, update_valid_area) and PointGenerator (create_circle,   *)
(* get_random_point, generate).                                            *)
(*                                                                         *)
(* Geometry is discretised: the plane is a GridW x GridH raster of unit    *)
(* cells, a geometry is the set of cells it covers, a point is the centre  *)
(* of a cell, and the shapely/geopandas primitives are modelled by what    *)
(* they compute on such sets: overlay(how='intersection') is \cap,         *)
(* overlay(how='difference') is \, explode() splits a set into its         *)
(* edge-connected components (one row each), Point.buffer(r) is the closed *)
(* disk of radius r, bounds is the bounding box and contains is \in.       *)
(***************************************************************************)
EXTENDS Integers, Sequences, FiniteSets, TLC

(* ---------------------------- bounds ----------------------------------- *)
GridW == 3
GridH == 2
MaxConstraints == 3
MaxPriority == 2
MaxMinDistance == 2
MaxTarget == 2
AttemptCap == 2
MaxRecords == 2

(* ---------------------------- geometry --------------------------------- *)
Grid == (0..(GridW - 1)) \X (0..(GridH - 1))

Square == Grid
LShape == {c \in Grid : c[1] = 0 \/ c[2] = 0}
LeftCol == {c \in Grid : c[1] = 0}
Center == {<<1, 1>>}

WithinGeoms == {Square, LShape, Center}
OutsideGeoms == {Center, LeftCol}
PreferGeoms == {LShape, LeftCol}

Abs(n) == IF n < 0 THEN -n ELSE n

Dist2(p, q) == (p[1] - q[1]) * (p[1] - q[1]) + (p[2] - q[2]) * (p[2] - q[2])

Adjacent(c, d) == Abs(c[1] - d[1]) + Abs(c[2] - d[2]) = 1

CellLess(c, d) == c[2] < d[2] \/ (c[2] = d[2] /\ c[1] < d[1])

MinCell(S) == CHOOSE c \in S : \A d \in S : d = c \/ CellLess(c, d)

RECURSIVE Grow(_, _)
Grow(S, C) ==
    LET N == {d \in S \ C : \E c \in C : Adjacent(c, d)}
    IN  IF N = {} THEN C ELSE Grow(S, C \cup N)

\* GeoDataFrame.explode: one row per connected part, in a fixed order
RECURSIVE Explode(_)
Explode(S) ==
    IF S = {} THEN <<>>
    ELSE LET C == Grow(S, {MinCell(S)})
         IN  <<C>> \o Explode(S \ C)

\* geometry.bounds followed by uniform draws inside it
Bounds(P) ==
    {c \in Grid : /\ \E d \in P : d[1] <= c[1]
                  /\ \E d \in P : d[1] >= c[1]
                  /\ \E d \in P : d[2] <= c[2]
                  /\ \E d \in P : d[2] >= c[2]}

\* Point.buffer(radius)
Buffer(p, radius) == {c \in Grid : Dist2(p, c) <= radius * radius}

(* ---------------------------- state ------------------------------------ *)
VARIABLES
    min_distance,     \* GeneratorConfig.min_distance
    max_distance,     \* GeneratorConfig.max_distance
    target_points,    \* GeneratorConfig.target_points, 0 stands for None
    valid_area,       \* ConstraintValidator.valid_area: None or <<set of cells>>
    prefer_areas,     \* ConstraintValidator.prefer_areas: sequence of <<priority, geometry>>
    pc,               \* position of the caller / of generate()
    search_area,      \* local valid_area of generate(): sequence of polygon rows
    valid_points,     \* local valid_points of generate()
    points_bound,     \* whether the local valid_points has been assigned
    point,            \* last candidate drawn by get_random_point
    attempts,         \* draws made so far by the running get_random_point call,
                      \* counted up to AttemptCap + 1
    exc,              \* exception that left generate(), "none" if it returned
    handled,          \* generate() went through its except handler
    result,           \* the point sequence generate() returned
    ncalls,           \* number of add_constraint calls made
    last,             \* the caller's last call on the validator or generator
    must_within,      \* geometries add_constraint applied as MUST_WITHIN
    must_outside,     \* geometries add_constraint applied as MUST_OUTSIDE
    fields_gen,       \* a FieldsGenerator: its gdf, its config and what
                      \* apply_fields has made of them
    prior_points,     \* points accepted by the generate() calls that have ended
    reran             \* generate() has been called again on the same generator

vars == <<min_distance, max_distance, target_points, valid_area, prefer_areas, pc, search_area,
          valid_points, points_bound, point, attempts, exc, handled, result,
          ncalls, last, must_within, must_outside, fields_gen, prior_points,
          reran>>

None == <<>>
Some(S) == <<S>>
Area(va) == va[1]

NoCall == [type |-> "none", geometry |-> {}, priority |-> 0,
           had_base |-> FALSE, raised |-> "none"]

GenerateCall == [type |-> "generate", geometry |-> {}, priority |-> 0,
                 had_base |-> FALSE, raised |-> "none"]

(* ---------------------------- ConstraintValidator ---------------------- *)
\* variant of SortByPriority: the list is left in registration order
SortByPriority_unsorted(s) == s

\* list.sort(key=lambda x: x[0]) is stable
RECURSIVE SortByPriority(_)
SortByPriority(s) ==
    IF s = <<>> THEN <<>>
    ELSE LET front == SortByPriority(SubSeq(s, 1, Len(s) - 1))
             e == s[Len(s)]
             k == Cardinality({i \in 1..Len(front) : front[i][1] <= e[1]})
         IN  SubSeq(front, 1, k) \o <<e>> \o SubSeq(front, k + 1, Len(front))

\* variant of LayerLoop: the remaining area is not reduced by the preference
RECURSIVE LayerLoop_keep(_, _, _, _)
LayerLoop_keep(remaining_area, prefs, i, layered_areas) ==
    IF i > Len(prefs)
    THEN IF remaining_area # {} THEN Append(layered_areas, remaining_area)
                                ELSE layered_areas
    ELSE LET current_layer == remaining_area \cap prefs[i][2]
         IN  LayerLoop_keep(remaining_area, prefs, i + 1,
                            IF current_layer # {} THEN Append(layered_areas, current_layer)
                                                  ELSE layered_areas)

RECURSIVE LayerLoop(_, _, _, _)
LayerLoop(remaining_area, prefs, i, layered_areas) ==
    IF i > Len(prefs)
    THEN IF remaining_area # {} THEN Append(layered_areas, remaining_area)
                                ELSE layered_areas
    ELSE LET current_layer == remaining_area \cap prefs[i][2]
         IN  LayerLoop(remaining_area \ prefs[i][2], prefs, i + 1,
                       IF current_layer # {} THEN Append(layered_areas, current_layer)
                                             ELSE layered_areas)

RECURSIVE ConcatExplode(_)
ConcatExplode(layers) ==
    IF layers = <<>> THEN <<>>
    ELSE Explode(Head(layers)) \o ConcatExplode(Tail(layers))

\* get_valid_area: raised is "ValueError" when valid_area is None and when
\* pd.concat is handed an empty list; prefer is prefer_areas after the call
get_valid_area(va, prefs) ==
    IF va = None
    THEN [raised |-> "ValueError", prefer |-> prefs, rows |-> <<>>]
    ELSE LET sorted == SortByPriority(prefs)
         IN  IF sorted = <<>>
             THEN [raised |-> "none", prefer |-> sorted, rows |-> Explode(Area(va))]
             ELSE LET layered_areas == LayerLoop(Area(va), sorted, 1, <<>>)
                  IN  IF layered_areas = <<>>
                      THEN [raised |-> "ValueError", prefer |-> sorted, rows |-> <<>>]
                      ELSE [raised |-> "none", prefer |-> sorted,
                            rows |-> ConcatExplode(layered_areas)]

\* variant of update_valid_area: how='symmetric_difference'
update_valid_area_symmetric(va, excluded_area) ==
    Some((Area(va) \ excluded_area) \cup (excluded_area \ Area(va)))

\* variant of update_valid_area: how='intersection'
update_valid_area_intersection(va, excluded_area) ==
    Some(Area(va) \cap excluded_area)

\* variant of update_valid_area: the difference is not stored on the validator
update_valid_area_copy(va, excluded_area) == va

update_valid_area(va, excluded_area) == Some(Area(va) \ excluded_area)

\* variant of create_circle: the disk is built with half the radius
create_circle_half(p, radius) == Buffer(p, radius \div 2)

create_circle(p, radius) == Buffer(p, radius)

\* create_ring is called by nothing
create_ring(p) == Buffer(p, max_distance) \ Buffer(p, min_distance)

\* variant of contains: a candidate must also lie within max_distance of an
\* accepted point, once there is one
contains_in_reach(poly, c) ==
    /\ c \in poly
    /\ valid_points = <<>>
         \/ \E i \in 1..Len(valid_points) : c \in Buffer(valid_points[i], max_distance)

\* current_poly.geometry.contains(point)
contains(poly, c) == c \in poly

(* ---------------------------- add_constraint --------------------------- *)
\* the validator after add_constraint(SpatialConstraint(_, g, t, p)), and the
\* exception the call raised; ConstraintValidator has no attribute config, so
\* the to_file line that follows the MUST_OUTSIDE overlay raises
\* variant of must_within_branch: an empty base region is treated like a
\* missing one
must_within_branch_empty(va, g) ==
    IF va = None \/ Area(va) = {} THEN Some(g) ELSE Some(Area(va) \cap g)

must_within_branch(va, g) ==
    IF va = None THEN Some(g) ELSE Some(Area(va) \cap g)

\* variant of must_outside_branch: the overlay is an intersection
must_outside_branch_intersection(va, g) ==
    IF va = None
    THEN [valid_area |-> va, raised |-> "ValueError"]
    ELSE [valid_area |-> Some(Area(va) \cap g), raised |-> "AttributeError"]

\* variant of must_outside_branch: the test for a missing base region is
\* absent, and the overlay call on None is what raises
must_outside_branch_unguarded(va, g) ==
    IF va = None
    THEN [valid_area |-> va, raised |-> "AttributeError"]
    ELSE [valid_area |-> Some(Area(va) \ g), raised |-> "AttributeError"]

must_outside_branch(va, g) ==
    IF va = None
    THEN [valid_area |-> va, raised |-> "ValueError"]
    ELSE [valid_area |-> Some(Area(va) \ g), raised |-> "AttributeError"]

\* variant of prefer_within_branch: a preference needs a base region, as a
\* MUST_OUTSIDE constraint does
prefer_within_branch_guarded(va, prefs, p, g) ==
    IF va = None
    THEN [prefer_areas |-> prefs, raised |-> "ValueError"]
    ELSE [prefer_areas |-> Append(prefs, <<p, g>>), raised |-> "none"]

prefer_within_branch(va, prefs, p, g) ==
    [prefer_areas |-> Append(prefs, <<p, g>>), raised |-> "none"]

add_constraint(va, prefs, t, g, p) ==
    CASE t = "MUST_WITHIN" ->
           [valid_area |-> must_within_branch(va, g), prefer_areas |-> prefs,
            raised |-> "none"]
      [] t = "MUST_OUTSIDE" ->
           LET r == must_outside_branch(va, g)
           IN  [valid_area |-> r.valid_area, prefer_areas |-> prefs,
                raised |-> r.raised]
      [] t = "PREFER_WITHIN" ->
           LET r == prefer_within_branch(va, prefs, p, g)
           IN  [valid_area |-> va, prefer_areas |-> r.prefer_areas,
                raised |-> r.raised]

AddConstraint(t, g, p) ==
    /\ pc = "config"
    /\ ncalls < MaxConstraints
    /\ LET r == add_constraint(valid_area, prefer_areas, t, g, p)
       IN  /\ valid_area' = r.valid_area
           /\ prefer_areas' = r.prefer_areas
           /\ last' = [type |-> t, geometry |-> g, priority |-> p,
                       had_base |-> valid_area # None, raised |-> r.raised]
           /\ must_within' = IF t = "MUST_WITHIN" THEN must_within \cup {g}
                             ELSE must_within
           /\ must_outside' = IF t = "MUST_OUTSIDE" /\ r.raised # "ValueError"
                              THEN must_outside \cup {g} ELSE must_outside
    /\ ncalls' = ncalls + 1
    /\ UNCHANGED <<min_distance, max_distance, target_points, pc, search_area, valid_points,
                   points_bound, point, attempts, exc, handled, result, fields_gen,
                   prior_points, reran>>

AddMustWithin == \E g \in WithinGeoms : AddConstraint("MUST_WITHIN", g, 0)

AddMustOutside == \E g \in OutsideGeoms : AddConstraint("MUST_OUTSIDE", g, 0)

AddPreferWithin ==
    \E g \in PreferGeoms, p \in 1..MaxPriority : AddConstraint("PREFER_WITHIN", g, p)

(* ---------------------------- PointGenerator.generate ------------------ *)
\* the except handler of generate: it returns valid_points, which is unbound
\* when the exception came before the assignment valid_points = []
Handler(bound, pts) ==
    /\ handled' = TRUE
    /\ IF bound
       THEN /\ pc' = "returned"
            /\ result' = pts
            /\ exc' = "none"
       ELSE /\ pc' = "raised"
            /\ result' = <<>>
            /\ exc' = "UnboundLocalError"

\* generate() up to the first test of the while loop
GenerateStart ==
    /\ pc = "config"
    /\ LET r == get_valid_area(valid_area, prefer_areas)
       IN  /\ prefer_areas' = r.prefer
           /\ IF r.raised # "none"
              THEN /\ Handler(points_bound, valid_points)
                   /\ UNCHANGED <<search_area, valid_points, points_bound>>
              ELSE /\ search_area' = r.rows
                   /\ valid_points' = <<>>
                   /\ points_bound' = TRUE
                   /\ pc' = "loop"
                   /\ UNCHANGED <<exc, handled, result>>
    /\ last' = GenerateCall
    /\ UNCHANGED <<min_distance, max_distance, target_points, valid_area, point, attempts,
                   ncalls, must_within, must_outside, fields_gen,
                   prior_points, reran>>

\* the normal return after the loop
ReturnPoints ==
    /\ pc' = "returned"
    /\ result' = valid_points
    /\ UNCHANGED <<exc, handled>>

\* variant of TargetReached: the comparison is strict
TargetReached_strict(n, target) == target # 0 /\ n > target

\* self.config.target_points and len(valid_points) >= self.config.target_points
TargetReached(n, target) == target # 0 /\ n >= target

\* the tests at the top of the while loop
LoopTest ==
    /\ pc = "loop"
    /\ IF search_area = <<>>
       THEN ReturnPoints
       ELSE IF TargetReached(Len(valid_points), target_points)
            THEN ReturnPoints
            ELSE /\ pc' = "sampling"
                 /\ UNCHANGED <<exc, handled, result>>
    /\ UNCHANGED <<min_distance, max_distance, target_points, valid_area, prefer_areas,
                   search_area, valid_points, points_bound, point, attempts,
                   ncalls, last, must_within, must_outside, fields_gen,
                   prior_points, reran>>

\* the rest of the loop body once get_random_point has returned new_point
Accept(new_point) ==
    LET new_circle == create_circle(new_point, min_distance)
        va == update_valid_area(valid_area, new_circle)
        r == get_valid_area(va, prefer_areas)
    IN  /\ valid_points' = Append(valid_points, new_point)
        /\ valid_area' = va
        /\ prefer_areas' = r.prefer
        /\ IF r.raised # "none"
           THEN /\ Handler(points_bound, Append(valid_points, new_point))
                /\ UNCHANGED search_area
           ELSE /\ search_area' = r.rows
                /\ pc' = "loop"
                /\ UNCHANGED <<exc, handled, result>>

\* one draw of get_random_point: the for loop over the rows never gets past
\* the first row, whose while True loop only ends by returning a point
GetRandomPoint ==
    /\ pc = "sampling"
    /\ IF Len(search_area) = 0
       THEN /\ ReturnPoints
            /\ UNCHANGED <<valid_area, prefer_areas, search_area, valid_points,
                           point, attempts>>
       ELSE LET current_poly == search_area[1]
            IN  \E c \in Bounds(current_poly) :
                   /\ point' = Some(c)
                   /\ IF contains(current_poly, c)
                      THEN /\ Accept(c)
                           /\ attempts' = 0
                      ELSE /\ attempts' = IF attempts > AttemptCap THEN attempts
                                          ELSE attempts + 1
                           /\ UNCHANGED <<valid_area, prefer_areas, search_area,
                                          valid_points, pc, exc, handled, result>>
    /\ UNCHANGED <<min_distance, max_distance, target_points, points_bound, ncalls, last,
                   must_within, must_outside, fields_gen,
                   prior_points, reran>>

\* the points of a sequence of points
Points(pts) == {pts[i] : i \in 1..Len(pts)}

\* generate() called again on the same PointGenerator after a call has ended:
\* the locals are new, the validator is the one the ended call left
GenerateAgain ==
    /\ pc \in {"returned", "raised"}
    /\ prior_points' = prior_points \cup Points(valid_points)
    /\ reran' = TRUE
    /\ LET r == get_valid_area(valid_area, prefer_areas)
       IN  /\ prefer_areas' = r.prefer
           /\ valid_points' = <<>>
           /\ IF r.raised # "none"
              THEN /\ Handler(FALSE, <<>>)
                   /\ search_area' = <<>>
                   /\ points_bound' = FALSE
              ELSE /\ search_area' = r.rows
                   /\ points_bound' = TRUE
                   /\ pc' = "loop"
                   /\ exc' = "none"
                   /\ handled' = FALSE
                   /\ result' = <<>>
    /\ point' = None
    /\ attempts' = 0
    /\ last' = GenerateCall
    /\ UNCHANGED <<min_distance, max_distance, target_points, valid_area, ncalls, must_within,
                   must_outside, fields_gen>>

(* ---------------------------- FieldsGenerator ------------------------- *)
\* Fields(field_name, default_value, dtype); has_default and has_dtype are
\* FALSE where the attribute is None
Field(name, has_default, default_value, has_dtype) ==
    [field_name |-> name, has_default |-> has_default,
     default_value |-> default_value, has_dtype |-> has_dtype]

\* GeneratorConfig.fields as the default factory builds it
DefaultFields ==
    << Field("site_id", FALSE, 0, FALSE),
       Field("site_longitude", FALSE, 0, FALSE),
       Field("site_latitude", FALSE, 0, FALSE),
       Field("site_height", FALSE, 0, FALSE),
       Field("site_sector", TRUE, 3, FALSE) >>

\* a field list in which every field outside id and coordinates has a default
DefaultedFields ==
    << Field("site_id", FALSE, 0, FALSE),
       Field("site_sector", TRUE, 3, FALSE) >>

\* a field list with a field that has a dtype (a string) and no default
TypedFields ==
    << Field("site_id", FALSE, 0, FALSE),
       Field("site_height", FALSE, 0, TRUE) >>

FieldLists == {DefaultFields, DefaultedFields, TypedFields}

\* key in field_name.lower(), for the field names above
NameContains(key, name) ==
    <<key, name>> \in {<<"id", "site_id">>, <<"longitude", "site_longitude">>,
                       <<"latitude", "site_latitude">>, <<"height", "site_height">>}

\* next((f.field_name for f in config if key in f.field_name.lower()), fallback)
FirstNamed(config, key, fallback) ==
    LET hits == {i \in 1..Len(config) : NameContains(key, config[i].field_name)}
    IN  IF hits = {} THEN fallback
        ELSE config[CHOOSE i \in hits : \A j \in hits : i <= j].field_name

id_field(config) == FirstNamed(config, "id", "site_id")

longitude_field(config) == FirstNamed(config, "longitude", "site_longitude")

latitude_field(config) == FirstNamed(config, "latitude", "site_latitude")

\* gdf[name] = column on a frame whose columns are the function cols
SetColumn(cols, name, column) ==
    [n \in DOMAIN cols \cup {name} |-> IF n = name THEN column ELSE cols[n]]

\* a frame with no attribute column
NoColumns == [n \in {} |-> <<>>]

add_id(cols, config, gdf, start) ==
    SetColumn(cols, id_field(config), [i \in 1..Len(gdf) |-> start + i - 1])

add_coordinates(cols, config, gdf) ==
    SetColumn(SetColumn(cols, longitude_field(config),
                        [i \in 1..Len(gdf) |-> gdf[i][1]]),
              latitude_field(config), [i \in 1..Len(gdf) |-> gdf[i][2]])

\* add_custom_fields from field i on: dtype is None or a string, and calling
\* it raises TypeError
RECURSIVE add_custom_fields(_, _, _, _)
add_custom_fields(cols, config, gdf, i) ==
    IF i > Len(config) THEN [columns |-> cols, raised |-> "none"]
    ELSE IF config[i].field_name \in DOMAIN cols
         THEN add_custom_fields(cols, config, gdf, i + 1)
         ELSE IF ~config[i].has_default
              THEN [columns |-> cols, raised |-> "TypeError"]
              ELSE add_custom_fields(
                       SetColumn(cols, config[i].field_name,
                                 [k \in 1..Len(gdf) |-> config[i].default_value]),
                       config, gdf, i + 1)

apply_fields(config, gdf) ==
    add_custom_fields(add_coordinates(add_id(NoColumns, config, gdf, 0), config, gdf),
                      config, gdf, 1)

NoFieldsGenerator ==
    [gdf |-> <<>>, config |-> DefaultFields, columns |-> NoColumns,
     raised |-> "none", applied |-> FALSE]

\* FieldsGenerator(gdf, config).apply_fields()
ApplyFields ==
    /\ ~fields_gen.applied
    /\ LET r == apply_fields(fields_gen.config, fields_gen.gdf)
       IN  fields_gen' = [fields_gen EXCEPT !.columns = r.columns,
                                            !.raised = r.raised,
                                            !.applied = TRUE]
    /\ UNCHANGED <<min_distance, max_distance, target_points, valid_area, prefer_areas, pc,
                   search_area, valid_points, points_bound, point, attempts, exc,
                   handled, result, ncalls, last, must_within, must_outside,
                   prior_points, reran>>

(* ---------------------------- specification ---------------------------- *)
Init ==
    /\ min_distance \in 1..MaxMinDistance
    /\ max_distance = min_distance + 1
    /\ target_points \in 0..MaxTarget
    /\ valid_area = None
    /\ prefer_areas = <<>>
    /\ pc = "config"
    /\ search_area = <<>>
    /\ valid_points = <<>>
    /\ points_bound = FALSE
    /\ point = None
    /\ attempts = 0
    /\ exc = "none"
    /\ handled = FALSE
    /\ result = <<>>
    /\ ncalls = 0
    /\ last = NoCall
    /\ must_within = {}
    /\ must_outside = {}
    /\ fields_gen = NoFieldsGenerator
    /\ prior_points = {}
    /\ reran = FALSE

\* point frames of up to MaxRecords rows
PointFrames == UNION {[1..n -> Grid] : n \in 0..MaxRecords}

\* a FieldsGenerator built on a frame of points and a field configuration
InitFields ==
    /\ min_distance = 1
    /\ max_distance = 2
    /\ target_points = 0
    /\ valid_area = None
    /\ prefer_areas = <<>>
    /\ pc = "config"
    /\ search_area = <<>>
    /\ valid_points = <<>>
    /\ points_bound = FALSE
    /\ point = None
    /\ attempts = 0
    /\ exc = "none"
    /\ handled = FALSE
    /\ result = <<>>
    /\ ncalls = 0
    /\ last = NoCall
    /\ must_within = {}
    /\ must_outside = {}
    /\ prior_points = {}
    /\ reran = FALSE
    /\ \E gdf \in PointFrames, config \in FieldLists :
          fields_gen = [gdf |-> gdf, config |-> config, columns |-> NoColumns,
                        raised |-> "none", applied |-> FALSE]

NextFields == ApplyFields

SpecFields == InitFields /\ [][NextFields]_vars

Next ==
    \/ AddMustWithin
    \/ AddMustOutside
    \/ AddPreferWithin
    \/ GenerateStart
    \/ LoopTest
    \/ GetRandomPoint

Spec == Init /\ [][Next]_vars

\* the program under a max_distance equal to or above min_distance, with no
\* target or the largest one
InitMaxDist ==
    /\ min_distance \in 1..MaxMinDistance
    /\ max_distance \in {min_distance, min_distance + 1}
    /\ target_points \in {0, MaxTarget}
    /\ valid_area = None
    /\ prefer_areas = <<>>
    /\ pc = "config"
    /\ search_area = <<>>
    /\ valid_points = <<>>
    /\ points_bound = FALSE
    /\ point = None
    /\ attempts = 0
    /\ exc = "none"
    /\ handled = FALSE
    /\ result = <<>>
    /\ ncalls = 0
    /\ last = NoCall
    /\ must_within = {}
    /\ must_outside = {}
    /\ fields_gen = NoFieldsGenerator
    /\ prior_points = {}
    /\ reran = FALSE

SpecMaxDist == InitMaxDist /\ [][Next]_vars

NextRerun ==
    \/ Next
    \/ GenerateAgain

\* the program with generate() called any number of times
SpecRerun == Init /\ [][NextRerun]_vars

\* generate() runs to completion once called: the program is sequential
FairSpec == Spec /\ WF_vars(LoopTest) /\ WF_vars(GetRandomPoint)

TypeOK ==
    /\ min_distance \in 1..MaxMinDistance
    /\ target_points \in 0..MaxTarget
    /\ valid_area = None \/ (Len(valid_area) = 1 /\ Area(valid_area) \subseteq Grid)
    /\ pc \in {"config", "loop", "sampling", "returned", "raised"}
    /\ \A i \in 1..Len(valid_points) : valid_points[i] \in Grid
    /\ exc \in {"none", "UnboundLocalError"}
    /\ ncalls \in 0..MaxConstraints
    /\ max_distance \in {min_distance, min_distance + 1}
    /\ prior_points \subseteq Grid
    /\ reran \in BOOLEAN
    /\ fields_gen.raised \in {"none", "TypeError"}

(* ---------------------------- properties ------------------------------- *)
Terminated == pc \in {"returned", "raised"}

\* a step that is an add_constraint call of type t
IsCall(t) == ncalls' = ncalls + 1 /\ last'.type = t

\* a step of generate() that accepts a point
IsAccept == Len(valid_points') = Len(valid_points) + 1

\* C1: any two accepted points, at distinct positions of the accepted
\* sequence, are at distance >= min_distance, in every state of generate and
\* in what it returns, the return through the except handler included
C1_PairwiseSeparation ==
    /\ \A i, j \in 1..Len(valid_points) :
          i # j => Dist2(valid_points[i], valid_points[j]) >= min_distance * min_distance
    /\ \A i, j \in 1..Len(result) :
          i # j => Dist2(result[i], result[j]) >= min_distance * min_distance

C1_Witness ==
    /\ pc = "returned"
    /\ handled
    /\ Len(result) >= 2

\* C2: every accepted point lies inside the union of the MUST_WITHIN
\* geometries and outside every MUST_OUTSIDE geometry that add_constraint
\* applied before generate, whatever the order of the calls
C2_Containment ==
    \A i \in 1..Len(valid_points) :
        /\ valid_points[i] \in UNION must_within
        /\ \A g \in must_outside : valid_points[i] \notin g

C2_Witness ==
    /\ valid_points # <<>>
    /\ must_outside # {}
    /\ Cardinality(must_within) >= 2

\* C3: once in its loop, generate always ends, whatever the draws are
C3_Termination == (pc = "loop") ~> Terminated

\* C4: a point is accepted only from a preference whose priority number is
\* the lowest among the preferences that still have area in the region the
\* point is drawn from; a point outside every preference is accepted only
\* when no preference has area left
PointPriority(pt, prefs) ==
    LET ps == {prefs[i][1] : i \in {k \in 1..Len(prefs) : pt \in prefs[k][2]}}
    IN  IF ps = {} THEN MaxPriority + 1
        ELSE CHOOSE m \in ps : \A n \in ps : m <= n

C4_PriorityLayering ==
    [][IsAccept =>
         \A i \in 1..Len(prefer_areas) :
            Area(valid_area) \cap prefer_areas[i][2] # {}
              => PointPriority(valid_points'[Len(valid_points')], prefer_areas)
                   <= prefer_areas[i][1]]_vars

C4_Witness ==
    /\ Len(prefer_areas) >= 2
    /\ prefer_areas[1][1] < prefer_areas[2][1]
    /\ Len(valid_points) >= 2
    /\ valid_points[1] \in prefer_areas[1][2]
    /\ valid_points[Len(valid_points)] \notin prefer_areas[1][2]
    /\ valid_points[Len(valid_points)] \in prefer_areas[2][2]

\* C5: with a positive target N the accepted sequence never has more than N
\* points, and a normal return that leaves a non-empty region returns
\* exactly N points
C5_TargetCount ==
    target_points # 0 =>
        /\ Len(valid_points) <= target_points
        /\ (pc = "returned" /\ ~handled /\ search_area # <<>>)
              => Len(result) = target_points

C5_Witness ==
    /\ pc = "returned"
    /\ ~handled
    /\ search_area # <<>>
    /\ target_points = 2
    /\ Len(result) = 2

\* C6: a MUST_OUTSIDE call made when a base region exists raises nothing
\* and leaves the base region equal to difference(base, geom)
C6_MustOutsideCompletes ==
    [][(IsCall("MUST_OUTSIDE") /\ valid_area # None)
         => /\ last'.raised = "none"
            /\ valid_area' = Some(Area(valid_area) \ last'.geometry)]_vars

\* C7: a MUST_OUTSIDE call made when no base region exists raises
\* ValueError and changes neither the base region nor the preference list,
\* and as long as no MUST_WITHIN was applied no point is produced
C7_NoBaseRegion ==
    /\ [][(IsCall("MUST_OUTSIDE") /\ valid_area = None)
            => /\ last'.raised = "ValueError"
               /\ valid_area' = valid_area
               /\ prefer_areas' = prefer_areas
               /\ valid_points' = <<>>]_vars
    /\ [](must_within = {} => (valid_points = <<>> /\ result = <<>>
                                /\ pc \in {"config", "raised"}))

C7_Witness ==
    /\ last.type = "MUST_OUTSIDE"
    /\ ~last.had_base
    /\ last.raised = "ValueError"
    /\ valid_area = None
    /\ prefer_areas # <<>>
    /\ valid_points = <<>>

\* C8 as stated: a PREFER_WITHIN call made when no base region exists
\* raises the NoBaseRegion error
C8_PreferRaisesImmediately ==
    (last.type = "PREFER_WITHIN" /\ ~last.had_base) => last.raised = "ValueError"

\* C8 amended: a PREFER_WITHIN call made when no base region exists raises
\* nothing, appends the preference and leaves the base region unset; the
\* missing base region only stops generate() when it is called
C8_PreferBuffered ==
    /\ [][(IsCall("PREFER_WITHIN") /\ valid_area = None)
            => /\ last'.raised = "none"
               /\ valid_area' = None
               /\ prefer_areas' = Append(prefer_areas,
                                          <<last'.priority, last'.geometry>>)]_vars
    /\ [](valid_area = None => pc \in {"config", "raised"})

C8_Witness ==
    /\ valid_area = None
    /\ prefer_areas # <<>>
    /\ pc = "raised"

\* C9: generate() on a validator without base region ends with the
\* NoBaseRegion error (the ValueError of get_valid_area) and no point set
C9_NoBaseReported ==
    (Terminated /\ valid_area = None)
        => (pc = "raised" /\ exc = "ValueError" /\ result = <<>>)

\* C10: when generate ends with an accepted point and an empty region, it
\* has returned exactly the accepted points, in order, and not through its
\* error handler
C10_PartialResults ==
    (Terminated /\ valid_points # <<>> /\ Area(valid_area) = {})
        => (pc = "returned" /\ result = valid_points /\ ~handled)

(* ---------------------------- region properties ------------------------ *)
InGenerateLoop == pc \in {"loop", "sampling"}

IsPrefix(s, t) == Len(s) <= Len(t) /\ SubSeq(t, 1, Len(s)) = s

UnionRows(rows) == UNION {rows[i] : i \in 1..Len(rows)}

PairwiseDisjoint(rows) ==
    \A i, j \in 1..Len(rows) : i # j => rows[i] \cap rows[j] = {}

NonEmptySet(S) == S # {}

\* the layers get_valid_area builds before it concatenates them
Layers(va, prefs) == LayerLoop(Area(va), SortByPriority(prefs), 1, <<>>)

\* the point a step of generate() has just accepted
NewPoint == valid_points'[Len(valid_points')]

\* C11: in the generate loop the region after a step is a subset of the
\* region before it, an acceptance takes at least the part of the disk that
\* lay in the region out of it, and the accepted sequence only grows at its end
C11_Monotone ==
    [][InGenerateLoop =>
         /\ Area(valid_area') \subseteq Area(valid_area)
         /\ UnionRows(search_area') \subseteq UnionRows(search_area)
         /\ IsPrefix(valid_points, valid_points')
         /\ IsAccept =>
              LET disk == Buffer(NewPoint, min_distance)
              IN  /\ Area(valid_area') \cap disk = {}
                  /\ Cardinality(Area(valid_area'))
                        <= Cardinality(Area(valid_area))
                             - Cardinality(disk \cap Area(valid_area))]_vars

C11_Witness ==
    /\ pc = "loop"
    /\ Len(valid_points) >= 2
    /\ Area(valid_area) # {}

\* C14: the layers are pairwise disjoint, their union is the base region,
\* the preferences are taken in ascending priority, and the layers are, in
\* that order and without the empty ones, the part of each preference that
\* lies in the base and in no earlier preference, then the part of the base
\* in no preference; the rows generate() holds partition the base as well
SortedPrefs == SortByPriority(prefer_areas)

ExpectedLayer(base, s, i) ==
    IF i <= Len(s)
    THEN {c \in base : c \in s[i][2] /\ \A j \in 1..(i - 1) : c \notin s[j][2]}
    ELSE {c \in base : \A j \in 1..Len(s) : c \notin s[j][2]}

ExpectedLayers(base, s) ==
    SelectSeq([i \in 1..(Len(s) + 1) |-> ExpectedLayer(base, s, i)], NonEmptySet)

C14_LayerPartition ==
    valid_area # None =>
        LET L == Layers(valid_area, prefer_areas)
        IN  /\ PairwiseDisjoint(L)
            /\ UnionRows(L) = Area(valid_area)
            /\ Len(SortedPrefs) = Len(prefer_areas)
            /\ \A i, j \in 1..Len(SortedPrefs) :
                  i < j => SortedPrefs[i][1] <= SortedPrefs[j][1]
            /\ L = ExpectedLayers(Area(valid_area), SortedPrefs)
            /\ InGenerateLoop =>
                  /\ PairwiseDisjoint(search_area)
                  /\ UnionRows(search_area) = Area(valid_area)

C14_Witness ==
    /\ pc = "config"
    /\ valid_area # None
    /\ Len(prefer_areas) = 2
    /\ prefer_areas[1][1] > prefer_areas[2][1]
    /\ prefer_areas[1][2] \cap prefer_areas[2][2] # {}
    /\ Len(Layers(valid_area, prefer_areas)) = 3

\* C15: after an acceptance the layers rebuilt from the reduced base are the
\* previous layers, each minus the disk, without the empty ones and in the
\* same order, and the rows generate() goes on with are those layers exploded
C15_ShrinkEquivalence ==
    [][IsAccept =>
         LET disk == Buffer(NewPoint, min_distance)
             prev == Layers(valid_area, prefer_areas)
             shrunk == SelectSeq([k \in 1..Len(prev) |-> prev[k] \ disk], NonEmptySet)
         IN  /\ Layers(valid_area', prefer_areas') = shrunk
             /\ pc' = "loop" => search_area' = ConcatExplode(shrunk)]_vars

C15_Witness ==
    /\ pc = "loop"
    /\ Len(valid_points) >= 2
    /\ Len(prefer_areas) >= 2
    /\ search_area # <<>>

\* C16: the first MUST_WITHIN sets the base region to its geometry, a later
\* one intersects the base with it, and the base is at any time the
\* intersection of the MUST_WITHIN geometries minus the union of the
\* MUST_OUTSIDE geometries applied, an empty intermediate base included
InterAll(geoms) == {c \in Grid : \A g \in geoms : c \in g}

C16_HardConstraints ==
    /\ [][IsCall("MUST_WITHIN") =>
            valid_area' = IF valid_area = None
                          THEN Some(last'.geometry)
                          ELSE Some(Area(valid_area) \cap last'.geometry)]_vars
    /\ []((pc = "config" /\ valid_area # None) =>
            Area(valid_area) = InterAll(must_within) \ UNION must_outside)

C16_Witness ==
    /\ pc = "config"
    /\ last.type = "MUST_WITHIN"
    /\ last.had_base
    /\ Cardinality(must_within) >= 2
    /\ must_outside # {}
    /\ valid_area # None
    /\ Area(valid_area) = {}

\* C13: one call of get_random_point makes at most AttemptCap draws in the
\* bounding box of one polygon before it moves on or gives up
C13_BoundedDraws == attempts <= AttemptCap

\* C17: apply_fields raises nothing and leaves every configured field on the
\* frame: the id field counts up from 0 over the rows, and a configured field
\* that is not the id or a coordinate holds its default on every row
C17_Enrichment ==
    fields_gen.applied =>
        LET config == fields_gen.config
            cols == fields_gen.columns
            n == Len(fields_gen.gdf)
        IN  /\ fields_gen.raised = "none"
            /\ \A i \in 1..Len(config) : config[i].field_name \in DOMAIN cols
            /\ cols[id_field(config)] = [k \in 1..n |-> k - 1]
            /\ \A i \in 1..Len(config) :
                  (config[i].has_default
                     /\ config[i].field_name \notin
                          {id_field(config), longitude_field(config),
                           latitude_field(config)})
                    => cols[config[i].field_name]
                         = [k \in 1..n |-> config[i].default_value]

\* a step that starts generate() again on the same generator
IsRerun == pc \in {"returned", "raised"} /\ reran'

\* C18: a later call of generate() starts from the region the earlier call
\* left, with an empty accepted list; every point it accepts is at least
\* min_distance away from every point of the earlier calls and lies in the
\* region as it stood before the acceptance, so none is accepted from an
\* empty region
C18_SharedRegion ==
    /\ [](\A p \in prior_points : \A i \in 1..Len(valid_points) :
            Dist2(p, valid_points[i]) >= min_distance * min_distance)
    /\ [][IsRerun
            => /\ valid_area' = valid_area
               /\ valid_points' = <<>>
               /\ (valid_area # None /\ pc' = "loop")
                    => UnionRows(search_area') = Area(valid_area)]_vars
    /\ [][IsAccept => (Area(valid_area) # {} /\ NewPoint \in Area(valid_area))]_vars

C18_Witness ==
    /\ reran
    /\ prior_points # {}
    /\ valid_points # <<>>
    /\ \E p \in prior_points :
          Dist2(p, valid_points[1]) <= (min_distance + 1) * (min_distance + 1)

\* C19: max_distance takes no part in a run. It never changes; a candidate
\* drawn in the bounding box of the first polygon is accepted exactly when it
\* lies in that polygon, however far it is from the accepted points, and the
\* acceptance removes the min_distance disk and nothing else from the region;
\* a rejected candidate changes nothing; the loop is left only on an empty
\* region or a reached target. So the accepted sequence and the final region
\* are determined by the constraints, min_distance, the target and the draws
C19_MaxDistanceUnused ==
    /\ [][max_distance' = max_distance]_vars
    /\ [][(pc = "sampling" /\ search_area # <<>>) =>
            LET c == point'[1]
            IN  IF c \in search_area[1]
                THEN /\ valid_points' = Append(valid_points, c)
                     /\ valid_area' = Some(Area(valid_area) \ Buffer(c, min_distance))
                ELSE /\ valid_points' = valid_points
                     /\ valid_area' = valid_area
                     /\ search_area' = search_area
                     /\ pc' = "sampling"]_vars
    /\ [][(pc = "loop" /\ pc' # "loop") =>
            IF search_area = <<>>
                 \/ (target_points # 0 /\ Len(valid_points) >= target_points)
            THEN pc' = "returned" /\ result' = valid_points
            ELSE pc' = "sampling"]_vars

\* a run has accepted a point farther than max_distance from every point
\* accepted before it
C19_Witness ==
    /\ pc = "returned"
    /\ Len(valid_points) >= 2
    /\ \A i \in 1..(Len(valid_points) - 1) :
          Dist2(valid_points[i], valid_points[Len(valid_points)])
             > max_distance * max_distance

====
